---------------------------- MODULE Spec2Model ----------------------------
(***************************************************************************)
(* The two NetBox v3.2 migration scripts of netbox_v32_migration.py:       *)
(* MigrateSiteContactsScript and MigrateSiteASNsScript, run against one     *)
(* store (sites, contacts, contact assignments, ASNs, site-ASN relation).   *)
(*                                                                         *)
(* A string is a sequence of one-character strings, so that str.strip()    *)
(* is computed and not assumed.  A nullable integer is <<>> (NULL) or <<n>>.*)
(* One action is one path through one iteration of a run's loop, with the  *)
(* point where a storage write may raise as an input of the action.  A     *)
(* run that raised is not followed by another run.                         *)
(***************************************************************************)
EXTENDS Integers, Sequences, FiniteSets

\* ------------------------------------------------------------------ bounds
NumSites == 2
MaxRuns == 2

Sites == 1..NumSites

\* ------------------------------------------------------------ input values
NameValues == { <<>>, <<" ">>, <<"a">>, <<"a", " ">> }
PhoneValues == { <<" ">>, <<" ", "1">> }
EmailValues == { <<>>, <<"e">> }
AsnValues == { <<>>, <<1>>, <<2>> }

Contact(n, p, e) == [name |-> n, phone |-> p, email |-> e]

\* Contact tables that exist before the first run.
InitContacts ==
    { <<>>,
      << Contact(<<"a">>, <<"1">>, <<"e">>) >>,
      << Contact(<<"a">>, <<"1">>, <<>>), Contact(<<"a">>, <<>>, <<"e">>) >> }

\* ASN tables that exist before the first run (ASN.asn is a unique key).
InitASNs ==
    { <<>>,
      << [asn |-> 1, rir |-> "old_rir"] >>,
      << [asn |-> 2, rir |-> "old_rir"], [asn |-> 1, rir |-> "old_rir"] >> }

\* At most one link exists before the first run.
InitLinks(n) == { {} } \cup { { <<s, pk>> } : s \in Sites, pk \in 1..n }

VARIABLES
    script,                 \* which of the two scripts is run
    data,                   \* the script's form data, the same in every run
    sites,                  \* Site table: pk -> legacy fields
    contacts,               \* Contact table: pk -> row
    assignments,            \* ContactAssignment table, in insertion order
    asns,                   \* ASN table: pk -> row
    site_asns,              \* Site.asns many-to-many relation
    run,                    \* number of runs started
    pc,                     \* "idle", "loop", "done" or "aborted"
    selected,               \* the evaluated queryset `sites` of the run
    idx,                    \* position of the loop in `selected`
    contacts_created,       \* counters of the contact script
    assignments_created,
    asns_created,           \* counters of the ASN script
    asns_assigned,
    log,                    \* log lines of the current run
    writes,                 \* history: every storage write that succeeded
    start                   \* history: the store when the current run began

store == <<sites, contacts, assignments, asns, site_asns>>
counters == <<contacts_created, assignments_created, asns_created, asns_assigned>>
vars == <<script, data, sites, contacts, assignments, asns, site_asns, run, pc,
          selected, idx, contacts_created, assignments_created, asns_created,
          asns_assigned, log, writes, start>>

\* ----------------------------------------------------------------- strings
IsSpace(c) == c = " "

RECURSIVE lstrip(_)
lstrip(s) == IF s # <<>> /\ IsSpace(Head(s)) THEN lstrip(Tail(s)) ELSE s

RECURSIVE rstrip(_)
rstrip(s) ==
    IF s # <<>> /\ IsSpace(s[Len(s)]) THEN rstrip(SubSeq(s, 1, Len(s) - 1)) ELSE s

strip(s) == rstrip(lstrip(s))

\* ------------------------------------------------------------------- store
Snapshot ==
    [sites |-> sites, contacts |-> contacts, assignments |-> assignments,
     asns |-> asns, site_asns |-> site_asns]

\* A Site instance as the queryset loads it.
SiteRow(pk) ==
    [pk |-> pk,
     contact_name |-> sites[pk].contact_name,
     contact_phone |-> sites[pk].contact_phone,
     contact_email |-> sites[pk].contact_email,
     asn |-> sites[pk].asn]

AllSiteRows == [pk \in Sites |-> SiteRow(pk)]

\* A log line: its level, its text, the site it is about (0: none) and the
\* number it reports (a primary key or a count).
Line(level, msg, site, n) == [level |-> level, msg |-> msg, site |-> site, n |-> n]

Write(op, site, pk) == [run |-> run, op |-> op, site |-> site, pk |-> pk]


\* ------------------------------------------- MigrateSiteContactsScript
AttrFields(phone, email) ==
    {"name"} \cup (IF phone # <<>> THEN {"phone"} ELSE {})
             \cup (IF email # <<>> THEN {"email"} ELSE {})

\* _get_contact_data: the dict of the fields that have a value after strip().
get_contact_data(site) ==
    LET name == strip(site.contact_name)
        phone == strip(site.contact_phone)
        email == strip(site.contact_email)
    IN [f \in AttrFields(phone, email) |->
           CASE f = "name" -> name
             [] f = "phone" -> phone
             [] f = "email" -> email]

\* Mutant: a field that is not given must be empty in the Contact.
ContactMatches_AllFields(c, attrs) ==
    \A f \in {"name", "phone", "email"} :
        c[f] = (IF f \in DOMAIN attrs THEN attrs[f] ELSE <<>>)

\* Contact.objects.filter(**attrs): every given field is equal.
ContactMatches(c, attrs) == \A f \in DOMAIN attrs : c[f] = attrs[f]

\* Mutant: the lookup sees the Contacts that existed when the run began.
ContactFilter_AtRunStart(attrs) ==
    { pk \in 1..Len(start.contacts) : ContactMatches(start.contacts[pk], attrs) }

ContactFilter(attrs) ==
    { pk \in 1..Len(contacts) : ContactMatches(contacts[pk], attrs) }

\* Mutant: the Contact is created from the name alone.
NewContact_NameOnly(attrs) == [name |-> attrs.name, phone |-> <<>>, email |-> <<>>]

\* Contact(**attrs): a field that is not given takes its default, ''.
NewContact(attrs) ==
    [f \in {"name", "phone", "email"} |-> IF f \in DOMAIN attrs THEN attrs[f] ELSE <<>>]

\* Mutant: only the assignments made by the current run are looked at.
AssignmentExists_ThisRun(site, pk) ==
    \E i \in DOMAIN writes :
        /\ writes[i].run = run /\ writes[i].op = "link"
        /\ writes[i].site = site.pk /\ writes[i].pk = pk

\* site.contacts.filter(contact=contact).exists()
AssignmentExists(site, pk) ==
    \E i \in 1..Len(assignments) :
        assignments[i].object = site.pk /\ assignments[i].contact = pk

NewAssignment(site, pk) ==
    [object |-> site.pk, contact |-> pk,
     role |-> data.contact_role, priority |-> data.contact_priority]

\* Mutant: the update is not filtered by pk.
ClearedContactFields_EverySite(pk) ==
    [s \in Sites |-> [contact_name |-> <<>>, contact_phone |-> <<>>,
                      contact_email |-> <<>>, asn |-> sites[s].asn]]

ClearedContactFields(pk) ==
    [sites EXCEPT ![pk].contact_name = <<>>,
                  ![pk].contact_phone = <<>>,
                  ![pk].contact_email = <<>>]

\* Mutant: a site is left out only when its three contact fields are empty.
ContactSiteSelected_AnyField(row) ==
    row.contact_name # <<>> \/ row.contact_phone # <<>> \/ row.contact_email # <<>>

\* Site.objects.exclude(contact_name=''), evaluated once by `if not sites`.
ContactSiteSelected(row) == row.contact_name # <<>>

ContactSites == SelectSeq(AllSiteRows, ContactSiteSelected)

\* Mutant: the run goes on after the warning.
ContactsRunStart_NoReturn ==
    /\ script = "contact"
    /\ pc \in {"idle", "done"}
    /\ run < MaxRuns
    /\ run' = run + 1
    /\ contacts_created' = 0
    /\ assignments_created' = 0
    /\ selected' = ContactSites
    /\ idx' = 1
    /\ start' = Snapshot
    /\ IF ContactSites = <<>>
       THEN log' = << Line("warning", "no sites found", 0, 0),
                      Line("info", "found sites", 0, 0) >>
       ELSE log' = << Line("info", "found sites", 0, Len(ContactSites)) >>
    /\ pc' = "loop"
    /\ UNCHANGED <<script, data, store, asns_created, asns_assigned, writes>>

ContactsRunStart ==
    /\ script = "contact"
    /\ pc \in {"idle", "done"}
    /\ run < MaxRuns
    /\ run' = run + 1
    /\ contacts_created' = 0
    /\ assignments_created' = 0
    /\ selected' = ContactSites
    /\ idx' = 1
    /\ start' = Snapshot
    /\ IF ContactSites = <<>>
       THEN /\ log' = << Line("warning", "no sites found", 0, 0) >>
            /\ pc' = "done"
       ELSE /\ log' = << Line("info", "found sites", 0, Len(ContactSites)) >>
            /\ pc' = "loop"
    /\ UNCHANGED <<script, data, store, asns_created, asns_assigned, writes>>

\* Lines 85-103: save the assignment, count it, clear the legacy fields if
\* asked to.  log0, writes0: the log and the writes of the iteration so far.
\* fail: the write that raises, "none" if every write succeeds.
ContactAssign(site, pk, fail, log0, writes0) ==
    LET log1 == Append(log0, Line("success", "assigning contact", site.pk, pk))
        writes1 == Append(writes0, Write("link", site.pk, pk))
    IN IF fail = "link"
       THEN /\ log' = log1
            /\ writes' = writes0
            /\ pc' = "aborted"
            /\ UNCHANGED <<assignments, assignments_created, sites, idx>>
       ELSE /\ assignments' = Append(assignments, NewAssignment(site, pk))
            /\ assignments_created' = assignments_created + 1
            /\ IF data.clear_site_fields
               THEN /\ log' = Append(log1, Line("debug", "clearing", site.pk, site.pk))
                    /\ IF fail = "clear"
                       THEN /\ writes' = writes1
                            /\ pc' = "aborted"
                            /\ UNCHANGED <<sites, idx>>
                       ELSE /\ sites' = ClearedContactFields(site.pk)
                            /\ writes' = Append(writes1, Write("clear", site.pk, pk))
                            /\ pc' = "loop"
                            /\ idx' = idx + 1
               ELSE /\ fail # "clear"
                    /\ log' = log1
                    /\ writes' = writes1
                    /\ pc' = "loop"
                    /\ idx' = idx + 1
                    /\ UNCHANGED sites

ContactLooping ==
    /\ script = "contact"
    /\ pc = "loop"
    /\ idx <= Len(selected)

\* Mutant: the Contact is not kept when its assignment raises.
ContactsIterCreate_RollsBack ==
    /\ ContactLooping
    /\ LET site == selected[idx]
           contact_data == get_contact_data(site)
           pk == Len(contacts) + 1
           log1 == Append(log, Line("success", "creating contact", site.pk, pk))
       IN /\ ContactFilter(contact_data) = {}
          /\ \E fail \in {"none", "create", "link", "clear"} :
                IF fail = "create"
                THEN /\ log' = log1
                     /\ pc' = "aborted"
                     /\ UNCHANGED <<store, contacts_created, assignments_created,
                                    idx, writes>>
                ELSE /\ contacts' = IF fail = "link" THEN contacts
                                    ELSE Append(contacts, NewContact(contact_data))
                     /\ contacts_created' = contacts_created + 1
                     /\ ContactAssign(site, pk, fail, log1,
                                      Append(writes, Write("create", site.pk, pk)))
    /\ UNCHANGED <<script, data, asns, site_asns, run, selected,
                   asns_created, asns_assigned, start>>

\* Lines 70-78 then 85-103: no Contact matches, one is created and assigned.
ContactsIterCreate ==
    /\ ContactLooping
    /\ LET site == selected[idx]
           contact_data == get_contact_data(site)
           pk == Len(contacts) + 1
           log1 == Append(log, Line("success", "creating contact", site.pk, pk))
       IN /\ ContactFilter(contact_data) = {}
          /\ \E fail \in {"none", "create", "link", "clear"} :
                IF fail = "create"
                THEN /\ log' = log1
                     /\ pc' = "aborted"
                     /\ UNCHANGED <<store, contacts_created, assignments_created,
                                    idx, writes>>
                ELSE /\ contacts' = Append(contacts, NewContact(contact_data))
                     /\ contacts_created' = contacts_created + 1
                     /\ ContactAssign(site, pk, fail, log1,
                                      Append(writes, Write("create", site.pk, pk)))
    /\ UNCHANGED <<script, data, asns, site_asns, run, selected,
                   asns_created, asns_assigned, start>>

\* Mutant: a skipped site is counted as assigned.
ContactsIterSkip_Counted ==
    /\ ContactLooping
    /\ LET site == selected[idx]
       IN \E contact \in ContactFilter(get_contact_data(site)) :
             /\ AssignmentExists(site, contact)
             /\ log' = Append(log, Line("info", "skipping contact", site.pk, contact))
             /\ idx' = idx + 1
    /\ assignments_created' = assignments_created + 1
    /\ UNCHANGED <<script, data, store, run, pc, selected, contacts_created,
                   asns_created, asns_assigned, writes, start>>

\* Lines 70-71, 81-83: the Contact found is already assigned to the site.
\* first() returns the first match in the model's default ordering, which
\* the script does not set: any of the matches may be the one returned.
ContactsIterSkip ==
    /\ ContactLooping
    /\ LET site == selected[idx]
       IN \E contact \in ContactFilter(get_contact_data(site)) :
             /\ AssignmentExists(site, contact)
             /\ log' = Append(log, Line("info", "skipping contact", site.pk, contact))
             /\ idx' = idx + 1
    /\ UNCHANGED <<script, data, store, run, pc, selected, counters, writes, start>>

\* Lines 70-71, 81, 85-103: the Contact found is not assigned to the site yet.
ContactsIterAssign ==
    /\ ContactLooping
    /\ LET site == selected[idx]
       IN \E contact \in ContactFilter(get_contact_data(site)) :
             /\ ~AssignmentExists(site, contact)
             /\ \E fail \in {"none", "link", "clear"} :
                   ContactAssign(site, contact, fail, log, writes)
    /\ UNCHANGED <<script, data, contacts, asns, site_asns, run, selected,
                   contacts_created, asns_created, asns_assigned, start>>

\* Lines 105-106: the loop is over, the two summary lines are logged.
ContactsRunEnd ==
    /\ script = "contact"
    /\ pc = "loop"
    /\ idx > Len(selected)
    /\ log' = log \o << Line("success", "created contacts", 0, contacts_created),
                        Line("success", "created assignments", 0, assignments_created) >>
    /\ pc' = "done"
    /\ UNCHANGED <<script, data, store, run, selected, idx, counters, writes, start>>


\* ----------------------------------------------- MigrateSiteASNsScript
\* ASN.objects.filter(asn=site.asn)
ASNFilter(n) == { pk \in 1..Len(asns) : <<asns[pk].asn>> = n }

\* ASN(asn=site.asn, rir=data['asn_rir'])
NewASN(site) == [asn |-> site.asn[1], rir |-> data.asn_rir]

\* asn in site.asns.all()
ASNAssigned(site, pk) == <<site.pk, pk>> \in site_asns

\* Site.objects.filter(asn__isnull=False), evaluated once by `if not sites`.
ASNSiteSelected(row) == row.asn # <<>>

ASNSites == SelectSeq(AllSiteRows, ASNSiteSelected)

ASNsRunStart ==
    /\ script = "asn"
    /\ pc \in {"idle", "done"}
    /\ run < MaxRuns
    /\ run' = run + 1
    /\ asns_created' = 0
    /\ asns_assigned' = 0
    /\ selected' = ASNSites
    /\ idx' = 1
    /\ start' = Snapshot
    /\ IF ASNSites = <<>>
       THEN /\ log' = << Line("warning", "no sites found", 0, 0) >>
            /\ pc' = "done"
       ELSE /\ log' = << Line("info", "found sites", 0, Len(ASNSites)) >>
            /\ pc' = "loop"
    /\ UNCHANGED <<script, data, store, contacts_created, assignments_created, writes>>

\* Lines 159-167: add the ASN to the site, count it, clear the legacy field
\* if asked to.
ASNAssign(site, pk, fail, log0, writes0) ==
    LET log1 == Append(log0, Line("success", "assigning ASN", site.pk, pk))
        writes1 == Append(writes0, Write("link", site.pk, pk))
    IN IF fail = "link"
       THEN /\ log' = log1
            /\ writes' = writes0
            /\ pc' = "aborted"
            /\ UNCHANGED <<site_asns, asns_assigned, sites, idx>>
       ELSE /\ site_asns' = site_asns \cup { <<site.pk, pk>> }
            /\ asns_assigned' = asns_assigned + 1
            /\ IF data.clear_site_field
               THEN /\ log' = Append(log1, Line("debug", "clearing", site.pk, site.pk))
                    /\ IF fail = "clear"
                       THEN /\ writes' = writes1
                            /\ pc' = "aborted"
                            /\ UNCHANGED <<sites, idx>>
                       ELSE /\ sites' = [sites EXCEPT ![site.pk].asn = <<>>]
                            /\ writes' = Append(writes1, Write("clear", site.pk, pk))
                            /\ pc' = "loop"
                            /\ idx' = idx + 1
               ELSE /\ fail # "clear"
                    /\ log' = log1
                    /\ writes' = writes1
                    /\ pc' = "loop"
                    /\ idx' = idx + 1
                    /\ UNCHANGED sites

ASNLooping ==
    /\ script = "asn"
    /\ pc = "loop"
    /\ idx <= Len(selected)

\* Lines 145-152 then 159-167: no ASN has this number, one is created and assigned.
ASNsIterCreate ==
    /\ ASNLooping
    /\ LET site == selected[idx]
           pk == Len(asns) + 1
           log1 == Append(log, Line("success", "creating ASN", site.pk, pk))
       IN /\ ASNFilter(site.asn) = {}
          /\ \E fail \in {"none", "create", "link", "clear"} :
                IF fail = "create"
                THEN /\ log' = log1
                     /\ pc' = "aborted"
                     /\ UNCHANGED <<store, asns_created, asns_assigned, idx, writes>>
                ELSE /\ asns' = Append(asns, NewASN(site))
                     /\ asns_created' = asns_created + 1
                     /\ ASNAssign(site, pk, fail, log1,
                                  Append(writes, Write("create", site.pk, pk)))
    /\ UNCHANGED <<script, data, contacts, assignments, run, selected,
                   contacts_created, assignments_created, start>>

\* Lines 145, 155-157: the ASN found is already assigned to the site.
ASNsIterSkip ==
    /\ ASNLooping
    /\ LET site == selected[idx]
       IN \E asn \in ASNFilter(site.asn) :
             /\ ASNAssigned(site, asn)
             /\ log' = Append(log, Line("info", "skipping ASN", site.pk, asn))
             /\ idx' = idx + 1
    /\ UNCHANGED <<script, data, store, run, pc, selected, counters, writes, start>>

\* Lines 145, 155, 159-167: the ASN found is not assigned to the site yet.
ASNsIterAssign ==
    /\ ASNLooping
    /\ LET site == selected[idx]
       IN \E asn \in ASNFilter(site.asn) :
             /\ ~ASNAssigned(site, asn)
             /\ \E fail \in {"none", "link", "clear"} :
                   ASNAssign(site, asn, fail, log, writes)
    /\ UNCHANGED <<script, data, contacts, assignments, asns, run, selected,
                   contacts_created, assignments_created, asns_created, start>>

\* Lines 169-170: the loop is over, the two summary lines are logged.
ASNsRunEnd ==
    /\ script = "asn"
    /\ pc = "loop"
    /\ idx > Len(selected)
    /\ log' = log \o << Line("success", "created ASNs", 0, asns_created),
                        Line("success", "assigned ASNs", 0, asns_assigned) >>
    /\ pc' = "done"
    /\ UNCHANGED <<script, data, store, run, selected, idx, counters, writes, start>>

\* ------------------------------------------------------------ specification
\* Sites of the contact script: at most one of phone and email has a value.
ContactSiteValues ==
    { s \in [contact_name : NameValues, contact_phone : PhoneValues,
             contact_email : EmailValues, asn : { <<>> }] :
          strip(s.contact_phone) = <<>> \/ s.contact_email = <<>> }

ASNSiteValues ==
    [contact_name : { <<>> }, contact_phone : { <<>> },
     contact_email : { <<>> }, asn : AsnValues]

InitContactScript ==
    /\ script = "contact"
    /\ data \in [contact_role : {"role"}, contact_priority : {"primary"},
                 clear_site_fields : BOOLEAN]
    /\ sites \in [Sites -> ContactSiteValues]
    /\ contacts \in InitContacts
    /\ \E links \in InitLinks(Len(contacts)) :
          assignments \in
              { a \in [1..Cardinality(links) ->
                         [object : Sites, contact : 1..Len(contacts),
                          role : {"role"}, priority : {"primary"}]] :
                    { <<a[i].object, a[i].contact>> : i \in DOMAIN a } = links }
    /\ asns = <<>>
    /\ site_asns = {}

InitASNScript ==
    /\ script = "asn"
    /\ data \in [asn_rir : {"rir"}, clear_site_field : BOOLEAN]
    /\ sites \in [Sites -> ASNSiteValues]
    /\ asns \in InitASNs
    /\ site_asns \in InitLinks(Len(asns))
    /\ contacts = <<>>
    /\ assignments = <<>>

Init ==
    /\ InitContactScript \/ InitASNScript
    /\ run = 0
    /\ pc = "idle"
    /\ selected = <<>>
    /\ idx = 1
    /\ contacts_created = 0
    /\ assignments_created = 0
    /\ asns_created = 0
    /\ asns_assigned = 0
    /\ log = <<>>
    /\ writes = <<>>
    /\ start = Snapshot

Next ==
    \/ ContactsRunStart
    \/ ContactsIterCreate
    \/ ContactsIterSkip
    \/ ContactsIterAssign
    \/ ContactsRunEnd
    \/ ASNsRunStart
    \/ ASNsIterCreate
    \/ ASNsIterSkip
    \/ ASNsIterAssign
    \/ ASNsRunEnd

Spec == Init /\ [][Next]_vars


\* -------------------------------------------------------------- properties
\* The lookup key of a selected site, as the claims state it.
Key(row) == IF script = "contact" THEN get_contact_data(row) ELSE row.asn

ClearFlag == IF script = "contact" THEN data.clear_site_fields ELSE data.clear_site_field

\* The writes of the current run, by kind.
RunWrites(op) == { i \in DOMAIN writes : writes[i].run = run /\ writes[i].op = op }

\* The creations of the current run made for a site whose key is k.
CreatesFor(k) ==
    { i \in RunWrites("create") :
        \E j \in DOMAIN selected :
            selected[j].pk = writes[i].site /\ Key(selected[j]) = k }

\* Positions i < j of the loop that hold two sites with the same key.
SameKeyPairs ==
    { p \in (DOMAIN selected) \X (DOMAIN selected) :
        p[1] < p[2] /\ Key(selected[p[1]]) = Key(selected[p[2]]) }

CanonicalCount == IF script = "contact" THEN Len(contacts) ELSE Len(asns)

LinkCount == IF script = "contact" THEN Len(assignments) ELSE Cardinality(site_asns)

\* The canonical records that match the key of the site the loop is at.
CurrentMatches ==
    IF script = "contact"
    THEN ContactFilter(get_contact_data(selected[idx]))
    ELSE ASNFilter(selected[idx].asn)

C1_AtMostOneCreated ==
    \A p \in SameKeyPairs :
        /\ Cardinality(CreatesFor(Key(selected[p[1]]))) <= 1
        /\ \A i \in RunWrites("create") : writes[i].site # selected[p[2]].pk

C1_CreateOnlyOnMiss ==
    CanonicalCount' # CanonicalCount =>
        /\ pc = "loop"
        /\ idx <= Len(selected)
        /\ CurrentMatches = {}
        /\ CanonicalCount' = CanonicalCount + 1

PairLinks(s, pk) ==
    IF script = "contact"
    THEN Cardinality({ i \in DOMAIN assignments :
                         assignments[i].object = s /\ assignments[i].contact = pk })
    ELSE Cardinality({ <<s, pk>> } \cap site_asns)

\* C2: over all runs, no (site, canonical record) pair has a link created
\* twice, and no pair holds more than one link: an iteration that finds the
\* link of its pair creates none.
C2_LinkOncePerPair ==
    /\ \A i, j \in DOMAIN writes :
          ( /\ writes[i].op = "link" /\ writes[j].op = "link"
            /\ writes[i].site = writes[j].site /\ writes[i].pk = writes[j].pk )
          => i = j
    /\ \A s \in Sites : \A pk \in 1..CanonicalCount : PairLinks(s, pk) <= 1

\* A second run has met a pair that the first run linked, and skipped it.
C2_Witness ==
    /\ run = 2
    /\ \E i \in DOMAIN log : \E j \in DOMAIN writes :
          /\ log[i].msg \in {"skipping contact", "skipping ASN"}
          /\ writes[j].run = 1 /\ writes[j].op = "link"
          /\ writes[j].site = log[i].site /\ writes[j].pk = log[i].n


LegacyEmpty(site) ==
    IF script = "contact"
    THEN /\ site.contact_name = <<>>
         /\ site.contact_phone = <<>>
         /\ site.contact_email = <<>>
    ELSE site.asn = <<>>

\* The links of site s in the store.
LinksOf(s) ==
    IF script = "contact"
    THEN { i \in DOMAIN assignments : assignments[i].object = s }
    ELSE { l \in site_asns : l[1] = s }

\* The loop has just finished an iteration without a write that raised.
IterationCompleted == pc = "loop" /\ pc' = "loop" /\ idx' = idx + 1

C3_ClearedOnlyWithLink ==
    \A s \in Sites :
        sites'[s] # sites[s] =>
            /\ ClearFlag
            /\ pc = "loop" /\ idx <= Len(selected) /\ selected[idx].pk = s
            /\ LegacyEmpty(sites'[s])
            /\ LinksOf(s)' # LinksOf(s)
            /\ \E l \in LinksOf(s)' :
                  IF script = "contact"
                  THEN assignments'[l].contact \in 1..Len(contacts')
                  ELSE l[2] \in 1..Len(asns')

C3_LinkClearsWhenFlagSet ==
    \A s \in Sites :
        ( /\ IterationCompleted
          /\ ClearFlag
          /\ selected[idx].pk = s
          /\ LinksOf(s)' # LinksOf(s) )
        => LegacyEmpty(sites'[s])

\* C3: a step changes the legacy fields of a site only if the clear flag is
\* set and the step is the iteration of that site and creates a link for it
\* to a canonical record that exists, and it then empties them; an iteration
\* that creates a link with the flag set, and whose writes do not raise,
\* empties them.  An iteration that creates no link leaves them as they are.
C3_ClearIffFlagAndLink ==
    [][C3_ClearedOnlyWithLink /\ C3_LinkClearsWhenFlagSet]_vars

\* With the flag set, one run has cleared a site it linked and has skipped
\* another, whose legacy fields are still there.
C3_Witness ==
    /\ ClearFlag
    /\ pc = "done"
    /\ \E i \in RunWrites("clear") : LegacyEmpty(sites[writes[i].site])
    /\ \E i \in DOMAIN log :
          /\ log[i].msg \in {"skipping contact", "skipping ASN"}
          /\ ~LegacyEmpty(sites[log[i].site])

IsTrimmed(str) == str = <<>> \/ (str[1] # " " /\ str[Len(str)] # " ")

IsBlank(str) == \A i \in DOMAIN str : str[i] = " "

\* str is raw without the spaces around it.
IsTrimOf(str, raw) ==
    /\ IsTrimmed(str)
    /\ \E n \in 0..Len(raw) :
          /\ n + Len(str) <= Len(raw)
          /\ \A j \in DOMAIN raw :
                IF j <= n \/ j > n + Len(str)
                THEN raw[j] = " "
                ELSE raw[j] = str[j - n]

C5_KeyOfTrimmedValues ==
    script = "contact" =>
        \A i \in DOMAIN selected :
            LET k == get_contact_data(selected[i])
            IN /\ "name" \in DOMAIN k
               /\ IsTrimOf(k.name, selected[i].contact_name)
               /\ "phone" \in DOMAIN k <=> ~IsBlank(selected[i].contact_phone)
               /\ "email" \in DOMAIN k <=> ~IsBlank(selected[i].contact_email)
               /\ "phone" \in DOMAIN k => IsTrimOf(k.phone, selected[i].contact_phone)
               /\ "email" \in DOMAIN k => IsTrimOf(k.email, selected[i].contact_email)

C5_NameOnlyKeyReuses ==
    ( /\ script = "contact" /\ pc = "loop" /\ idx <= Len(selected)
      /\ IsBlank(selected[idx].contact_phone)
      /\ IsBlank(selected[idx].contact_email)
      /\ \E pk \in DOMAIN contacts :
            IsTrimOf(contacts[pk].name, selected[idx].contact_name) )
    => contacts' = contacts

SelectorFieldEmpty(site) ==
    IF script = "contact" THEN site.contact_name = <<>> ELSE site.asn = <<>>

\* C6: during a run, a site whose selector field was empty when the run
\* began is not in the loop, no write of the run is made for it, it has the
\* links it had, and its row is not modified.
C6_EmptyLegacyFieldExcluded ==
    run >= 1 =>
        \A s \in Sites :
            SelectorFieldEmpty(start.sites[s]) =>
                /\ \A i \in DOMAIN selected : selected[i].pk # s
                /\ \A i \in DOMAIN writes : writes[i].run = run => writes[i].site # s
                /\ \A i \in DOMAIN log : log[i].site # s
                /\ sites[s] = start.sites[s]
                /\ Cardinality(LinksOf(s)) =
                       IF script = "contact"
                       THEN Cardinality({ i \in DOMAIN start.assignments :
                                            start.assignments[i].object = s })
                       ELSE Cardinality({ l \in start.site_asns : l[1] = s })

\* A run is over that processed one site and left alone another, whose
\* contact_name is empty and whose contact_phone is not (or whose asn is null).
C6_Witness ==
    /\ pc = "done"
    /\ RunWrites("link") # {}
    /\ \E s \in Sites :
          /\ SelectorFieldEmpty(start.sites[s])
          /\ script = "contact" => start.sites[s].contact_phone # <<>>

\* C7: a run that finds every site with an empty selector field is over at
\* once, has logged one line, a warning, has counted nothing and has left
\* the store as it was.
C7_EmptySelection ==
    ( run >= 1 /\ \A s \in Sites : SelectorFieldEmpty(start.sites[s]) ) =>
        /\ pc = "done"
        /\ Len(log) = 1
        /\ log[1].level = "warning"
        /\ Snapshot = start
        /\ contacts_created = 0 /\ assignments_created = 0
        /\ asns_created = 0 /\ asns_assigned = 0
        /\ RunWrites("create") \cup RunWrites("link") \cup RunWrites("clear") = {}

\* A run found no site to migrate although the store holds canonical records.
C7_Witness ==
    /\ run >= 1
    /\ \A s \in Sites : SelectorFieldEmpty(start.sites[s])
    /\ CanonicalCount > 0
    /\ log # <<>>

\* The canonical record pk matches the key of the selected site row.
MatchesSite(pk, row) ==
    IF script = "contact"
    THEN /\ IsTrimOf(contacts[pk].name, row.contact_name)
         /\ ~IsBlank(row.contact_phone) => IsTrimOf(contacts[pk].phone, row.contact_phone)
         /\ ~IsBlank(row.contact_email) => IsTrimOf(contacts[pk].email, row.contact_email)
    ELSE <<asns[pk].asn>> = row.asn

\* C8: when a run is over, every site it selected has a link to a canonical
\* record that matches the key of the site.
C8_SelectedSitesLinked ==
    pc = "done" =>
        \A i \in DOMAIN selected :
            \E pk \in 1..CanonicalCount :
                /\ PairLinks(selected[i].pk, pk) >= 1
                /\ MatchesSite(pk, selected[i])

\* A run is over in which every site was selected, a canonical record with a
\* phone (or any ASN) was created and two links were created.
C8_Witness ==
    /\ pc = "done"
    /\ Len(selected) = NumSites
    /\ \E i \in RunWrites("create") :
          script = "contact" => contacts[writes[i].pk].phone # <<>>
    /\ Cardinality(RunWrites("link")) >= 2

C9_CountersAreEffects ==
    /\ run >= 1 =>
          /\ contacts_created = Len(contacts) - Len(start.contacts)
          /\ assignments_created = Len(assignments) - Len(start.assignments)
          /\ asns_created = Len(asns) - Len(start.asns)
          /\ asns_assigned = Cardinality(site_asns) - Cardinality(start.site_asns)
    /\ ( pc = "done" /\ selected # <<>> ) =>
          /\ Len(log) >= 2
          /\ log[Len(log) - 1].n = (IF script = "contact" THEN contacts_created
                                                          ELSE asns_created)
          /\ log[Len(log)].n = (IF script = "contact" THEN assignments_created
                                                      ELSE asns_assigned)

C9_CountersMonotone ==
    run' = run =>
        /\ contacts_created' >= contacts_created
        /\ assignments_created' >= assignments_created
        /\ asns_created' >= asns_created
        /\ asns_assigned' >= asns_assigned
        /\ ( CanonicalCount' = CanonicalCount /\ LinkCount' = LinkCount )
              => counters' = counters

\* C9: in every state of a run each counter is the number of rows the run
\* has added to its table; within a run no counter decreases, and a step
\* that adds no row changes no counter; the two summary lines of a run that
\* is over report the counters.
C9_Counters == [](C9_CountersAreEffects) /\ [][C9_CountersMonotone]_vars

\* Two sites that share a key, no canonical record before the run: the run
\* is over with one record created and two links.
C9_Witness ==
    /\ pc = "done"
    /\ SameKeyPairs # {}
    /\ start.contacts = <<>> /\ start.asns = <<>>
    /\ contacts_created + asns_created = 1
    /\ assignments_created + asns_assigned = 2

\* The log lines that announce a write, each logged before its write.
Attempts ==
    { i \in DOMAIN log :
        log[i].msg \in {"creating contact", "assigning contact", "creating ASN",
                        "assigning ASN", "clearing"} }

RunWriteCount ==
    Cardinality(RunWrites("create") \cup RunWrites("link") \cup RunWrites("clear"))

\* A write of the current run raised.
WriteRaised == Cardinality(Attempts) > RunWriteCount

\* The effect of a write of the current run is in the store.
Durable(w) ==
    CASE w.op = "create" ->
            /\ w.pk \in 1..CanonicalCount
            /\ \E i \in DOMAIN selected :
                  selected[i].pk = w.site /\ MatchesSite(w.pk, selected[i])
      [] w.op = "link" -> PairLinks(w.site, w.pk) = 1
      [] w.op = "clear" -> LegacyEmpty(sites[w.site])

C10_StateAfterRaise ==
    WriteRaised =>
        /\ pc = "aborted"
        /\ idx <= Len(selected)
        /\ Cardinality(Attempts) = RunWriteCount + 1
        /\ \A i \in DOMAIN writes : writes[i].run = run => Durable(writes[i])
        /\ SubSeq(contacts, 1, Len(start.contacts)) = start.contacts
        /\ SubSeq(assignments, 1, Len(start.assignments)) = start.assignments
        /\ SubSeq(asns, 1, Len(start.asns)) = start.asns
        /\ start.site_asns \subseteq site_asns

C10_NoStepAfterRaise == WriteRaised => UNCHANGED vars

\* C10: once a write of a run has raised, the run is aborted at the site of
\* that write and takes no further step; every write the run made before, in
\* earlier iterations and in the failing one, is in the store, and so is
\* every row the store held when the run began.
C10_RaiseAborts == [](C10_StateAfterRaise) /\ [][C10_NoStepAfterRaise]_vars

\* The second iteration of a run raised at its link, after its canonical
\* record was created and after the first iteration made its writes.
C10_Witness ==
    /\ pc = "aborted"
    /\ idx = 2
    /\ \E i \in RunWrites("link") : writes[i].site = selected[1].pk
    /\ \E i \in RunWrites("create") : writes[i].site = selected[2].pk
    /\ \A i \in RunWrites("link") : writes[i].site # selected[2].pk

=============================================================================
